---- MODULE Spec2Model ----
(***************************************************************************)
(* Model of the grocery store API (src/app.py): the PostgreSQL store       *)
(* created by init_db, the cookie session kept by login/logout, the        *)
(* product handlers and the two credit handlers add_borrow and             *)
(* add_repayment, each of which runs INSERT, UPDATE and COMMIT as one      *)
(* database transaction on its own connection.                             *)
(*                                                                         *)
(* Money.  The columns are DECIMAL(10,2): a stored value is an integer     *)
(* number of hundredths (cents).  A request amount is an integer number    *)
(* of thousandths (mills), so that the rounding PostgreSQL performs when   *)
(* it assigns to a DECIMAL(10,2) column is part of the model.              *)
(***************************************************************************)
EXTENDS Integers, Sequences, FiniteSets, TLC

VARIABLES
    customers,          \* customers table: id -> [phone, total_borrowed, total_repaid]
    customers_id_seq,   \* last value handed out by customers.id SERIAL
    transactions,       \* transactions table, committed rows in commit order
    products,           \* products table: id -> [price, stock, low_stock_threshold]
    products_id_seq,    \* last value handed out by products.id SERIAL
    sales,              \* sales table, committed rows
    sale_items,         \* sale_items table, committed rows
    session,            \* per client: the Flask session cookie
    workers,            \* per connection: the credit request it is serving
    last                \* the last response of a single-step handler

vars == <<customers, customers_id_seq, transactions, products, products_id_seq,
          sales, sale_items, session, workers, last>>

----------------------------------------------------------------------------
(* Bounds of the model *)

\* connections serving credit requests at the same time
NumWorkers == 2
\* committed transaction rows after which no new credit request is started
MaxTx == 2
\* ids the customers SERIAL may hand out beyond the three seeded rows
MaxNewCustomers == 1
\* ids the products SERIAL may hand out beyond the ten seeded rows
MaxNewProducts == 1
\* committed sales after which no new sale is started
MaxSales == 2

----------------------------------------------------------------------------
(* Values *)

\* SQL NULL / Python None in an integer column or session key
NULL == 0
\* a key the request's JSON body does not hold
Absent == -1
\* Python None for a text session key
None == "None"

Workers == 1..NumWorkers
Clients == {"c1", "c2"}

\* amounts in mills: -5.000, 0.000, 0.006, 700.000
Amounts == {-5000, 0, 6, 700000}
Descriptions == {"udhaar"}
Phones == {"9876543210", "9000000001"}

----------------------------------------------------------------------------
(* DECIMAL(10,2) *)

\* a numeric value in mills assigned to a DECIMAL(10,2) column: rounded to
\* cents, ties away from zero
ToDecimal2(m) == IF m >= 0 THEN (m + 5) \div 10 ELSE -((-m + 5) \div 10)

\* a stored DECIMAL(10,2) value (cents) as a numeric in mills
FromDecimal2(c) == c * 10

----------------------------------------------------------------------------
(* init_db: schema and seed rows *)

\* generate_password_hash / check_password_hash: the hash is a tagged copy of
\* the password, so that two passwords have the same hash only when equal
generate_password_hash(pw) == <<"hash", pw>>
check_password_hash(hash, pw) == hash = generate_password_hash(pw)

\* default users inserted by init_db
users ==
    <<[id |-> 1, username |-> "owner", password |-> generate_password_hash("owner123"),
       role |-> "owner"],
      [id |-> 2, username |-> "staff1", password |-> generate_password_hash("staff123"),
       role |-> "staff"]>>

\* sample_products: price (cents), stock, low_stock_threshold
sample_products ==
    <<[price |-> 6000,  stock |-> 100, low_stock_threshold |-> 20],
      [price |-> 4500,  stock |-> 80,  low_stock_threshold |-> 15],
      [price |-> 5500,  stock |-> 15,  low_stock_threshold |-> 20],
      [price |-> 8000,  stock |-> 25,  low_stock_threshold |-> 10],
      [price |-> 4000,  stock |-> 50,  low_stock_threshold |-> 15],
      [price |-> 3500,  stock |-> 60,  low_stock_threshold |-> 20],
      [price |-> 3000,  stock |-> 70,  low_stock_threshold |-> 25],
      [price |-> 2500,  stock |-> 40,  low_stock_threshold |-> 15],
      [price |-> 2000,  stock |-> 100, low_stock_threshold |-> 30],
      [price |-> 15000, stock |-> 50,  low_stock_threshold |-> 10]>>

\* sample_customers: phone, total_borrowed, total_repaid (cents)
sample_customers ==
    <<[phone |-> "9876543210", total_borrowed |-> 150000, total_repaid |-> 80000],
      [phone |-> "9876543211", total_borrowed |-> 200000, total_repaid |-> 200000],
      [phone |-> "9876543212", total_borrowed |-> 50000,  total_repaid |-> 0]>>

\* the empty Flask session: session.get(key) is None for every key
EmptySession == [user_id |-> NULL, role |-> None, username |-> None]

\* a connection that serves no request.  began_at is history: the number of
\* committed transaction rows when the connection's request began.
IdleWorker ==
    [pc |-> "idle", transaction_type |-> "none", customer_id |-> NULL, amount |-> 0,
     description |-> None, created_by |-> NULL, new_total |-> 0, status |-> "",
     began_at |-> 0]

\* the response of a single-step handler: the handler, the client it answered,
\* the HTTP status (or the error kind of the sale coordinator), the id the
\* request named or the handler returned, and the request's body
Response(op, c, status, id, request) ==
    [op |-> op, client |-> c, status |-> status, id |-> id, request |-> request]

NoResponse == Response("none", "none", "", NULL, <<>>)

\* the store after init_db has run on an empty database
init_db ==
    /\ customers = sample_customers
    /\ customers_id_seq = Len(sample_customers)
    /\ transactions = <<>>
    /\ products = sample_products
    /\ products_id_seq = Len(sample_products)
    /\ sales = <<>>
    /\ sale_items = <<>>

Init ==
    /\ init_db
    /\ session = [c \in Clients |-> EmptySession]
    /\ workers = [w \in Workers |-> IdleWorker]
    /\ last = NoResponse

----------------------------------------------------------------------------
(* Credit handlers: add_borrow, add_repayment *)

\* mutant: the transactions table without its foreign key on customer_id
FkCustomerExistsNoConstraint(cid) == TRUE

\* FOREIGN KEY (customer_id) REFERENCES customers(id), checked by the INSERT
FkCustomerExists(cid) == cid \in DOMAIN customers

\* mutant: add_repayment's UPDATE copied from add_borrow with its column
TotalColumnAlwaysBorrowed(transaction_type) == "total_borrowed"

\* the column of customers the handler's UPDATE adds to
TotalColumn(transaction_type) ==
    IF transaction_type = "borrow" THEN "total_borrowed" ELSE "total_repaid"

\* the row the handler's INSERT adds: amount is assigned to DECIMAL(10,2)
TransactionRow(r) ==
    [customer_id |-> r.customer_id, transaction_type |-> r.transaction_type,
     amount |-> ToDecimal2(r.amount), description |-> r.description,
     created_by |-> r.created_by]

\* UPDATE customers SET total = total + amount: the sum is assigned to
\* DECIMAL(10,2)
UpdatedTotal(total, amount) == ToDecimal2(FromDecimal2(total) + amount)

\* the value the UPDATE ... WHERE id = customer_id writes; the UPDATE matches
\* no row, and writes nothing, when no customer has the id
UpdateNewTotal(r) ==
    IF r.customer_id \in DOMAIN customers
    THEN UpdatedTotal(customers[r.customer_id][TotalColumn(r.transaction_type)], r.amount)
    ELSE 0

\* mutant: the total read and written back without the row lock
RowLockedByOtherNoLock(cid, w) == FALSE

\* the row lock the UPDATE takes on the customer row and holds until its
\* transaction commits or rolls back: another transaction's UPDATE of the
\* same row waits for it, then reads the committed row
RowLockedByOther(cid, w) ==
    \E v \in Workers \ {w} : workers[v].pc = "updated" /\ workers[v].customer_id = cid

\* mutant: the connection in autocommit mode, so that the statements already
\* executed stay in the store when the handler answers 400
RollbackAutocommit(w) ==
    /\ workers' = [workers EXCEPT ![w].pc = "done", ![w].status = "400"]
    /\ transactions' = Append(transactions, TransactionRow(workers[w]))
    /\ UNCHANGED customers

\* except: conn.rollback(); return 400
Rollback(w) ==
    /\ workers' = [workers EXCEPT ![w].pc = "done", ![w].status = "400"]
    /\ UNCHANGED <<customers, transactions>>

\* the try block up to and including the INSERT; `fail` is an error raised
\* by the statement (bad or missing field, lost connection)
CreditInsert(w, c, transaction_type, cid, amount, description, fail) ==
    /\ workers[w].pc \in {"idle", "done"}
    /\ Len(transactions) < MaxTx
    /\ LET r == [pc |-> "inserted", transaction_type |-> transaction_type,
                 customer_id |-> cid, amount |-> amount, description |-> description,
                 created_by |-> session[c].user_id, new_total |-> 0, status |-> "",
                 began_at |-> Len(transactions)]
       IN  IF fail \/ ~FkCustomerExists(cid)
           THEN workers' = [workers EXCEPT ![w] = [r EXCEPT !.pc = "done", !.status = "400"]]
           ELSE workers' = [workers EXCEPT ![w] = r]
    /\ UNCHANGED <<customers, customers_id_seq, transactions, products, products_id_seq,
                   sales, sale_items, session, last>>

add_borrow(w, c, cid, amount, description, fail) ==
    CreditInsert(w, c, "borrow", cid, amount, description, fail)

add_repayment(w, c, cid, amount, description, fail) ==
    CreditInsert(w, c, "repay", cid, amount, description, fail)

\* the UPDATE of the customer's total, inside the same transaction
CreditUpdate(w, fail) ==
    /\ workers[w].pc = "inserted"
    /\ IF fail
       THEN Rollback(w)
       ELSE /\ ~RowLockedByOther(workers[w].customer_id, w)
            /\ workers' = [workers EXCEPT ![w].pc = "updated",
                                          ![w].new_total = UpdateNewTotal(workers[w])]
            /\ UNCHANGED <<customers, transactions>>
    /\ UNCHANGED <<customers_id_seq, products, products_id_seq, sales, sale_items,
                   session, last>>

\* mutant: the INSERT written as an upsert that overwrites the customer's
\* latest row of the same type
CommittedTransactionsUpsert(w) ==
    LET row == TransactionRow(workers[w])
        same == {i \in DOMAIN transactions :
                    /\ transactions[i].customer_id = row.customer_id
                    /\ transactions[i].transaction_type = row.transaction_type}
    IN  IF same = {} THEN Append(transactions, row)
        ELSE [transactions EXCEPT ![CHOOSE i \in same : \A j \in same : j <= i] = row]

\* what conn.commit() makes visible: the inserted row and the new total
CommittedTransactions(w) == Append(transactions, TransactionRow(workers[w]))

CommittedCustomers(w) ==
    IF workers[w].customer_id \in DOMAIN customers
    THEN [customers EXCEPT ![workers[w].customer_id]
                               [TotalColumn(workers[w].transaction_type)] =
                                   workers[w].new_total]
    ELSE customers

\* conn.commit(); return success
CreditCommit(w, fail) ==
    /\ workers[w].pc = "updated"
    /\ IF fail
       THEN Rollback(w)
       ELSE /\ transactions' = CommittedTransactions(w)
            /\ customers' = CommittedCustomers(w)
            /\ workers' = [workers EXCEPT ![w].pc = "done", ![w].status = "200"]
    /\ UNCHANGED <<customers_id_seq, products, products_id_seq, sales, sale_items,
                   session, last>>

----------------------------------------------------------------------------
(* add_customer *)

PhoneTaken(phone) == \E id \in DOMAIN customers : customers[id].phone = phone

\* INSERT INTO customers ... RETURNING id; commit.  The SERIAL hands out an id
\* before the UNIQUE(phone) check, and keeps it handed out on rollback.  The
\* totals take their DEFAULT 0.
add_customer(c, phone, fail) ==
    /\ customers_id_seq < Len(sample_customers) + MaxNewCustomers
    /\ IF fail
       THEN /\ UNCHANGED <<customers, customers_id_seq>>
            /\ last' = Response("add_customer", c, "400", NULL, <<phone>>)
       ELSE /\ customers_id_seq' = customers_id_seq + 1
            /\ IF PhoneTaken(phone)
               THEN /\ UNCHANGED customers
                    /\ last' = Response("add_customer", c, "400", NULL, <<phone>>)
               ELSE /\ customers' =
                          (customers_id_seq' :>
                              [phone |-> phone, total_borrowed |-> 0, total_repaid |-> 0])
                          @@ customers
                    /\ last' = Response("add_customer", c, "200", customers_id_seq', <<phone>>)
    /\ UNCHANGED <<transactions, products, products_id_seq, sales, sale_items,
                   session, workers>>

----------------------------------------------------------------------------
(* login, logout *)

\* SELECT * FROM users WHERE username = %s; fetchone(): the matching rows
UsersNamed(username) == {i \in DOMAIN users : users[i].username = username}

login(c, username, password) ==
    /\ IF \E i \in UsersNamed(username) : check_password_hash(users[i].password, password)
       THEN LET i == CHOOSE i \in UsersNamed(username) : TRUE
            IN  /\ session' = [session EXCEPT ![c] =
                       [user_id |-> users[i].id, role |-> users[i].role,
                        username |-> users[i].username]]
                /\ last' = Response("login", c, "200", users[i].id, <<username, password>>)
       ELSE /\ UNCHANGED session
            /\ last' = Response("login", c, "401", NULL, <<username, password>>)
    /\ UNCHANGED <<customers, customers_id_seq, transactions, products, products_id_seq,
                   sales, sale_items, workers>>

logout(c) ==
    /\ session' = [session EXCEPT ![c] = EmptySession]
    /\ last' = Response("logout", c, "200", NULL, <<>>)
    /\ UNCHANGED <<customers, customers_id_seq, transactions, products, products_id_seq,
                   sales, sale_items, workers>>

----------------------------------------------------------------------------
(* Product handlers *)

\* session.get('role') not in ['owner', 'staff']
MayEditProducts(c) == session[c].role \in {"owner", "staff"}

\* mutant: delete_product's check copied from add_product
MayDeleteProductsAsEdit(c) == MayEditProducts(c)

\* session.get('role') != 'owner'
MayDeleteProducts(c) == session[c].role = "owner"

\* low_stock_threshold INTEGER DEFAULT 20; data.get('low_stock_threshold', 20)
DefaultLowStockThreshold == 20

\* mutant: the sale_items table without its foreign key on product_id
ReferencedBySaleItemsNoConstraint(pid) == FALSE

\* FOREIGN KEY (product_id) REFERENCES products(id): with no ON DELETE action
\* a DELETE of a referenced product raises
ReferencedBySaleItems(pid) == \E i \in DOMAIN sale_items : sale_items[i].product_id = pid

\* stock <= low_stock_threshold
isLowStock(p) == p.stock <= p.low_stock_threshold

add_product(c, price, stock, threshold) ==
    /\ products_id_seq < Len(sample_products) + MaxNewProducts
    /\ IF ~MayEditProducts(c)
       THEN /\ UNCHANGED <<products, products_id_seq>>
            /\ last' = Response("add_product", c, "403", NULL, <<>>)
       ELSE /\ products_id_seq' = products_id_seq + 1
            /\ products' =
                   (products_id_seq' :>
                       [price |-> price, stock |-> stock,
                        low_stock_threshold |->
                            IF threshold = Absent THEN DefaultLowStockThreshold
                            ELSE threshold])
                   @@ products
            /\ last' = Response("add_product", c, "200", products_id_seq', <<>>)
    /\ UNCHANGED <<customers, customers_id_seq, transactions, sales, sale_items,
                   session, workers>>

update_product(c, product_id, price, stock, threshold) ==
    /\ IF ~MayEditProducts(c)
       THEN /\ UNCHANGED products
            /\ last' = Response("update_product", c, "403", product_id, <<>>)
       ELSE /\ products' =
                   IF product_id \in DOMAIN products
                   THEN [products EXCEPT ![product_id] =
                            [price |-> price, stock |-> stock,
                             low_stock_threshold |-> threshold]]
                   ELSE products
            /\ last' = Response("update_product", c, "200", product_id, <<>>)
    /\ UNCHANGED <<customers, customers_id_seq, transactions, products_id_seq, sales,
                   sale_items, session, workers>>

\* the handler has no try block: the foreign-key error of the DELETE leaves
\* the handler before conn.commit() and is answered 500
delete_product(c, product_id) ==
    /\ IF ~MayDeleteProducts(c)
       THEN /\ UNCHANGED products
            /\ last' = Response("delete_product", c, "403", product_id, <<>>)
       ELSE IF ReferencedBySaleItems(product_id)
       THEN /\ UNCHANGED products
            /\ last' = Response("delete_product", c, "500", product_id, <<>>)
       ELSE /\ products' = [id \in DOMAIN products \ {product_id} |-> products[id]]
            /\ last' = Response("delete_product", c, "200", product_id, <<>>)
    /\ UNCHANGED <<customers, customers_id_seq, transactions, products_id_seq, sales,
                   sale_items, session, workers>>

----------------------------------------------------------------------------
(* Sale Transaction Coordinator: createSale *)

RECURSIVE SaleTotal(_)
\* total_amount = sum of quantity * unit_price over the line items
SaleTotal(items) ==
    IF items = <<>> THEN 0
    ELSE Head(items).quantity * Head(items).price + SaleTotal(Tail(items))

RECURSIVE DecrementStock(_, _)
\* the Inventory Adjuster's decrement, applied for each line item in order
DecrementStock(prods, items) ==
    IF items = <<>> THEN prods
    ELSE DecrementStock(
             [prods EXCEPT ![Head(items).product_id].stock = @ - Head(items).quantity],
             Tail(items))

\* validation: items non-empty, each quantity a positive integer
SaleItemsValid(items) ==
    /\ Len(items) > 0
    /\ \A i \in DOMAIN items : items[i].quantity > 0

\* validation: each referenced product exists
SaleProductsExist(items) == \A i \in DOMAIN items : items[i].product_id \in DOMAIN products

\* the rejecting stock policy: a decrement would leave a stock below zero
InsufficientStock(items) ==
    \E id \in DOMAIN products : DecrementStock(products, items)[id].stock < 0

\* mutant: the coordinator without the check that each product exists
SaleOutcomeUnchecked(customer_id, items, allowNegativeStock, fail_at) ==
    IF ~SaleItemsValid(items) THEN "InvalidInput"
    ELSE IF fail_at \in DOMAIN items THEN "Retryable"
    ELSE "ok"

\* the error kind the request is rejected with, "ok" when it commits.
\* fail_at = k > 0 is a store failure while line item k is written.
SaleOutcome(customer_id, items, allowNegativeStock, fail_at) ==
    IF ~SaleItemsValid(items) THEN "InvalidInput"
    ELSE IF ~SaleProductsExist(items) THEN "NotFound"
    ELSE IF customer_id # NULL /\ customer_id \notin DOMAIN customers
         THEN "IntegrityViolation"
    ELSE IF ~allowNegativeStock /\ InsufficientStock(items) THEN "InsufficientStock"
    ELSE IF fail_at \in DOMAIN items THEN "Retryable"
    ELSE "ok"

\* the rows of one committed unit of work
SaleRow(c, customer_id, items) ==
    [customer_id |-> customer_id, total_amount |-> SaleTotal(items),
     payment_status |-> "paid", created_by |-> session[c].user_id]

SaleItemRows(sale_id, items) ==
    [i \in DOMAIN items |->
        [sale_id |-> sale_id, product_id |-> items[i].product_id,
         quantity |-> items[i].quantity, price |-> items[i].price]]

createSale(c, customer_id, items, allowNegativeStock, fail_at) ==
    /\ Len(sales) < MaxSales
    /\ LET outcome == SaleOutcome(customer_id, items, allowNegativeStock, fail_at)
       IN  /\ IF outcome = "ok"
              THEN /\ sales' = Append(sales, SaleRow(c, customer_id, items))
                   /\ sale_items' = sale_items \o SaleItemRows(Len(sales) + 1, items)
                   /\ products' = DecrementStock(products, items)
              ELSE UNCHANGED <<sales, sale_items, products>>
           /\ last' = Response("createSale", c, outcome,
                               IF outcome = "ok" THEN Len(sales) + 1 ELSE NULL, items)
    /\ UNCHANGED <<customers, customers_id_seq, transactions, products_id_seq,
                   session, workers>>

----------------------------------------------------------------------------
(* Specifications *)

\* customer ids named by credit requests: a seeded customer and the first id
\* the SERIAL hands out after the seeds
CreditCustomerIds == {1, Len(sample_customers) + 1}

\* credentials tried by login requests
Usernames == {"owner", "staff1", "nobody"}
Passwords == {"owner123", "staff123"}

\* product ids named by product and sale requests: a seeded product and the
\* first id the SERIAL hands out after the seeds
ProductIds == {1, Len(sample_products) + 1}

\* line items of sale requests
SaleItem(product_id, quantity) ==
    [product_id |-> product_id, quantity |-> quantity, price |-> 6000]
SaleItemLists ==
    {<<>>,
     <<SaleItem(1, 5)>>,
     <<SaleItem(1, 200)>>,
     <<SaleItem(1, 5), SaleItem(Len(sample_products) + 1, 5)>>}

\* The credit handlers served by one connection at a time, and add_customer;
\* the client never logs in
Next ==
    \/ \E cid \in CreditCustomerIds, amount \in Amounts, description \in Descriptions,
          fail \in BOOLEAN :
          add_borrow(1, "c1", cid, amount, description, fail)
    \/ \E cid \in CreditCustomerIds, amount \in Amounts, description \in Descriptions,
          fail \in BOOLEAN :
          add_repayment(1, "c1", cid, amount, description, fail)
    \/ \E fail \in BOOLEAN : CreditUpdate(1, fail)
    \/ \E fail \in BOOLEAN : CreditCommit(1, fail)
    \/ \E phone \in Phones, fail \in BOOLEAN : add_customer("c1", phone, fail)

Spec == Init /\ [][Next]_vars

\* The credit handlers served by NumWorkers connections at the same time, each
\* serving one request for the same customer
NextConc ==
    \/ \E w \in Workers, amount \in {6, 700000}, fail \in BOOLEAN :
          workers[w].pc = "idle" /\ add_borrow(w, "c1", 1, amount, "udhaar", fail)
    \/ \E w \in Workers, amount \in {6, 700000}, fail \in BOOLEAN :
          workers[w].pc = "idle" /\ add_repayment(w, "c1", 1, amount, "udhaar", fail)
    \/ \E w \in Workers, fail \in BOOLEAN : CreditUpdate(w, fail)
    \/ \E w \in Workers, fail \in BOOLEAN : CreditCommit(w, fail)
    \/ login("c1", "owner", "owner123")
    \/ logout("c1")

SpecConc == Init /\ [][NextConc]_vars

\* Two clients: login, logout and the product handlers
NextAuth ==
    \/ \E c \in Clients, username \in Usernames, password \in Passwords :
          login(c, username, password)
    \/ \E c \in Clients : logout(c)
    \/ \E c \in Clients, threshold \in {Absent, 10} : add_product(c, 6000, 15, threshold)
    \/ \E c \in Clients, product_id \in ProductIds, stock \in {3, 30} :
          update_product(c, product_id, 6000, stock, 20)
    \/ \E c \in Clients, product_id \in ProductIds : delete_product(c, product_id)

SpecAuth == Init /\ [][NextAuth]_vars

\* One client: login, logout, add_product, delete_product and the sale
\* coordinator
NextCatalog ==
    \/ \E password \in Passwords : login("c1", "owner", password)
    \/ logout("c1")
    \/ add_product("c1", 6000, 15, Absent)
    \/ \E product_id \in ProductIds : delete_product("c1", product_id)
    \/ \E items \in SaleItemLists, allowNegativeStock \in BOOLEAN, fail_at \in 0..2 :
          createSale("c1", 1, items, allowNegativeStock, fail_at)

SpecCatalog == Init /\ [][NextCatalog]_vars

----------------------------------------------------------------------------
(* Properties of the credit handlers *)

RECURSIVE SumAmounts(_, _, _)
\* the sum of the amounts of the rows of `rows` for a customer and a type
SumAmounts(rows, cid, transaction_type) ==
    IF rows = <<>> THEN 0
    ELSE (IF Head(rows).customer_id = cid /\ Head(rows).transaction_type = transaction_type
          THEN Head(rows).amount ELSE 0)
         + SumAmounts(Tail(rows), cid, transaction_type)

\* the totals init_db gave the customer: the seed's, or the column default 0
SeedTotals(cid) ==
    IF cid \in DOMAIN sample_customers
    THEN [total_borrowed |-> sample_customers[cid].total_borrowed,
          total_repaid |-> sample_customers[cid].total_repaid]
    ELSE [total_borrowed |-> 0, total_repaid |-> 0]

StoreUnchanged == customers' = customers /\ transactions' = transactions

\* the stored value `cents` is the amount `mills` rounded to two decimals
IsRounded(cents, mills) == mills - 10 * cents \in -5..5

\* the request of connection w ended in this step
Ended(w) == workers[w].pc # "done" /\ workers'[w].pc = "done"

\* C1: for every customer, total_borrowed is the sum of the customer's
\* 'borrow' rows and total_repaid the sum of the customer's 'repay' rows, in
\* every reachable state from init_db on.
C1_ProjectionConsistency ==
    \A cid \in DOMAIN customers :
        /\ customers[cid].total_borrowed = SumAmounts(transactions, cid, "borrow")
        /\ customers[cid].total_repaid = SumAmounts(transactions, cid, "repay")

\* What the code keeps instead: each total is what init_db seeded plus the sum
\* of the customer's rows of that type.
ProjectionFromSeed ==
    \A cid \in DOMAIN customers :
        /\ customers[cid].total_borrowed =
               SeedTotals(cid).total_borrowed + SumAmounts(transactions, cid, "borrow")
        /\ customers[cid].total_repaid =
               SeedTotals(cid).total_repaid + SumAmounts(transactions, cid, "repay")

\* C2: a credit request that fails at the INSERT, the UPDATE or the commit is
\* answered with one error and leaves the committed store as it was; and the
\* committed store changes only by one new transaction row together with the
\* matching increment of that customer's total, never by one without the other.
C2_AllOrNothing ==
    [][/\ \A w \in Workers :
              Ended(w) /\ workers'[w].status # "200"
                  => workers'[w].status = "400" /\ StoreUnchanged
       /\ \/ /\ transactions' = transactions
             /\ \A cid \in DOMAIN customers : customers'[cid] = customers[cid]
          \/ \E w \in Workers :
                LET r == workers[w]
                    row == transactions'[Len(transactions')]
                IN  /\ Ended(w) /\ workers'[w].status = "200"
                    /\ transactions' = Append(transactions, row)
                    /\ row.customer_id = r.customer_id
                    /\ row.transaction_type = r.transaction_type
                    /\ IsRounded(row.amount, r.amount)
                    /\ row.description = r.description
                    /\ row.created_by = r.created_by
                    /\ customers' =
                           IF r.transaction_type = "borrow"
                           THEN [customers EXCEPT
                                    ![r.customer_id].total_borrowed = @ + row.amount]
                           ELSE [customers EXCEPT
                                    ![r.customer_id].total_repaid = @ + row.amount]
      ]_vars

\* C2's case: a borrow of 700.00 for customer 1 whose UPDATE had run (the new
\* total 2200.00 was computed) failed at the commit: answered 400, no row, the
\* total still 1500.00.
C2_Witness ==
    \E w \in Workers :
        /\ workers[w].pc = "done" /\ workers[w].status = "400"
        /\ workers[w].transaction_type = "borrow" /\ workers[w].customer_id = 1
        /\ workers[w].new_total = 220000
        /\ customers[1].total_borrowed = 150000
        /\ transactions = <<>>

\* C3: a borrow or repay request whose amount is zero or negative is answered
\* with an error and leaves the store unchanged.
C3_NonPositiveRejected ==
    [][\A w \in Workers :
          Ended(w) /\ workers'[w].amount <= 0
              => workers'[w].status = "400" /\ StoreUnchanged]_vars

\* C6: a credit request naming a customer id that is not in customers is
\* answered 400 at once and leaves the store unchanged; no committed
\* transaction row references a missing customer.
C6_MissingCustomerRejected ==
    /\ [](\A i \in DOMAIN transactions : transactions[i].customer_id \in DOMAIN customers)
    /\ [][\A w \in Workers :
             workers'[w] # workers[w] /\ workers[w].pc \in {"idle", "done"}
                 /\ workers'[w].customer_id \notin DOMAIN customers
                 => /\ workers'[w].pc = "done" /\ workers'[w].status = "400"
                    /\ StoreUnchanged]_vars

\* C6's case: a request for a customer id that is not in customers was
\* answered 400, with a committed row already in the table.
C6_Witness ==
    \E w \in Workers :
        /\ workers[w].pc = "done" /\ workers[w].status = "400"
        /\ workers[w].customer_id \notin DOMAIN customers
        /\ Len(transactions) = 1

\* C7: every step keeps every committed transaction row, with all its fields,
\* at its place: the table only grows at its end.
C7_AppendOnly ==
    [][/\ Len(transactions') >= Len(transactions)
       /\ \A i \in DOMAIN transactions : transactions'[i] = transactions[i]]_vars

\* C7's case: a second row of the same customer and type was committed after
\* a first one, which is still there.
C7_Witness ==
    /\ Len(transactions) = 2
    /\ transactions[1].customer_id = transactions[2].customer_id
    /\ transactions[1].transaction_type = transactions[2].transaction_type
    /\ transactions[1].amount # transactions[2].amount

\* the step in which connection w commits its request
Commits(w) == workers[w].pc = "updated" /\ workers'[w].status = "200"

\* everything but the committing customer's total of the request's type and
\* the new row is unchanged
CreditFrame(w) ==
    LET r == workers[w]
    IN  /\ DOMAIN customers' = DOMAIN customers
        /\ \A cid \in DOMAIN customers \ {r.customer_id} : customers'[cid] = customers[cid]
        /\ customers'[r.customer_id].phone = customers[r.customer_id].phone
        /\ IF r.transaction_type = "borrow"
           THEN customers'[r.customer_id].total_repaid =
                    customers[r.customer_id].total_repaid
           ELSE customers'[r.customer_id].total_borrowed =
                    customers[r.customer_id].total_borrowed
        /\ Len(transactions') = Len(transactions) + 1
        /\ \A i \in DOMAIN transactions : transactions'[i] = transactions[i]
        /\ transactions'[Len(transactions')].customer_id = r.customer_id
        /\ transactions'[Len(transactions')].transaction_type = r.transaction_type
        /\ products' = products
        /\ \A id \in DOMAIN products : isLowStock(products'[id]) = isLowStock(products[id])
        /\ sales' = sales /\ sale_items' = sale_items

\* the committing customer's total of the request's type before and after
TotalBefore(w) ==
    IF workers[w].transaction_type = "borrow"
    THEN customers[workers[w].customer_id].total_borrowed
    ELSE customers[workers[w].customer_id].total_repaid

TotalAfter(w) ==
    IF workers[w].transaction_type = "borrow"
    THEN customers'[workers[w].customer_id].total_borrowed
    ELSE customers'[workers[w].customer_id].total_repaid

----------------------------------------------------------------------------
(* Properties of concurrent credit requests *)

\* every connection has committed a request of the same type and amount for
\* customer cid
AllCommitted(cid, transaction_type, amount) ==
    \A w \in Workers :
        /\ workers[w].pc = "done" /\ workers[w].status = "200"
        /\ workers[w].customer_id = cid
        /\ workers[w].transaction_type = transaction_type
        /\ workers[w].amount = amount

\* the customer's total of a type, over what init_db seeded
TotalIncrease(cid, transaction_type) ==
    IF transaction_type = "borrow"
    THEN customers[cid].total_borrowed - SeedTotals(cid).total_borrowed
    ELSE customers[cid].total_repaid - SeedTotals(cid).total_repaid

\* the rows of a customer and a type
RowsOf(cid, transaction_type) ==
    {i \in DOMAIN transactions :
        /\ transactions[i].customer_id = cid
        /\ transactions[i].transaction_type = transaction_type}

----------------------------------------------------------------------------
(* Properties of sales and products *)

\* the step is a createSale request answered with `status`
SaleAnswered(status) ==
    /\ last'.op = "createSale" /\ last'.status = status
    /\ <<sales, sale_items, products, last>>' # <<sales, sale_items, products, last>>

\* the stock of product id after the step is its stock before less the
\* quantities of the step's new line items for it
RECURSIVE QuantityOf(_, _)
QuantityOf(rows, id) ==
    IF rows = <<>> THEN 0
    ELSE (IF Head(rows).product_id = id THEN Head(rows).quantity ELSE 0)
         + QuantityOf(Tail(rows), id)

\* C5: a sale request with N line items either commits the sale row, its N
\* sale_items rows and the N stock decrements together, or changes none of
\* sales, sale_items and stock; a request that references a product id that
\* does not exist is rejected with NotFound and changes nothing.
C5_SaleAtomic ==
    [][/\ (sales' # sales \/ sale_items' # sale_items
              \/ (last'.op = "createSale" /\ products' # products))
          => LET items == last'.request
                 new == SubSeq(sale_items', Len(sale_items) + 1, Len(sale_items'))
             IN  /\ last'.op = "createSale" /\ last'.status = "ok"
                 /\ Len(sales') = Len(sales) + 1
                 /\ \A i \in DOMAIN sales : sales'[i] = sales[i]
                 /\ Len(sale_items') = Len(sale_items) + Len(items)
                 /\ \A i \in DOMAIN sale_items : sale_items'[i] = sale_items[i]
                 /\ \A i \in DOMAIN items :
                        /\ new[i].sale_id = Len(sales')
                        /\ new[i].product_id = items[i].product_id
                        /\ new[i].quantity = items[i].quantity
                 /\ DOMAIN products' = DOMAIN products
                 /\ \A id \in DOMAIN products :
                        products'[id].stock = products[id].stock - QuantityOf(items, id)
       /\ \A status \in {"InvalidInput", "NotFound", "IntegrityViolation",
                         "InsufficientStock", "Retryable"} :
              SaleAnswered(status)
                  => sales' = sales /\ sale_items' = sale_items /\ products' = products
       /\ (last'.op = "createSale" /\ last' # last
              /\ \E i \in DOMAIN last'.request :
                     last'.request[i].product_id \notin DOMAIN products)
          => /\ last'.status = "NotFound"
             /\ sales' = sales /\ sale_items' = sale_items /\ products' = products
      ]_vars

\* C5's case: with one sale committed, a request of two line items whose last
\* one names a product id that does not exist was rejected with NotFound.
C5_Witness ==
    /\ last.op = "createSale" /\ last.status = "NotFound"
    /\ Len(last.request) = 2
    /\ last.request[1].product_id \in DOMAIN products
    /\ last.request[2].product_id \notin DOMAIN products
    /\ Len(sales) = 1

\* C8: no sale_items row references a product id that is not in products; a
\* delete_product request for a product some sale_items row references fails
\* and leaves products and sale_items as they were; a product row is removed
\* only by a delete_product request for a product no sale_items row references.
C8_DeleteOnlyUnreferenced ==
    /\ [](\A i \in DOMAIN sale_items : sale_items[i].product_id \in DOMAIN products)
    /\ [][/\ \A id \in DOMAIN products :
                id \notin DOMAIN products'
                    => /\ last'.op = "delete_product" /\ last'.id = id
                       /\ last'.status = "200"
                       /\ \A i \in DOMAIN sale_items : sale_items[i].product_id # id
          /\ (last'.op = "delete_product" /\ last' # last
                 /\ \E i \in DOMAIN sale_items : sale_items[i].product_id = last'.id)
             => /\ last'.status # "200"
                /\ products' = products /\ sale_items' = sale_items
         ]_vars

\* C8's case: the owner's delete_product request for a product that a
\* sale_items row references was answered 500, and the product is still there.
C8_Witness ==
    /\ last.op = "delete_product" /\ last.status = "500"
    /\ session[last.client].role = "owner"
    /\ last.id \in DOMAIN products
    /\ \E i \in DOMAIN sale_items : sale_items[i].product_id = last.id

----------------------------------------------------------------------------
(* Properties of sessions and roles *)

\* the username/password pairs init_db creates, with their roles
ValidLogins ==
    {<<"owner", "owner123", "owner">>, <<"staff1", "staff123", "staff">>}

ProductOps == {"add_product", "update_product", "delete_product"}

\* C9: a session gets a role only by a login with a valid username/password
\* pair (that user's role) and loses it by logout; add_product and
\* update_product change products only for a session whose role is owner or
\* staff, delete_product only for a session whose role is owner; a product
\* request of a session without a role is answered 403 'Unauthorized' and
\* leaves products unchanged.
C9_RoleGating ==
    [][/\ \A c \in Clients :
              session'[c] # session[c]
                  => \/ /\ last'.op = "logout" /\ last'.client = c
                        /\ session'[c] = EmptySession
                     \/ /\ last'.op = "login" /\ last'.client = c /\ last'.status = "200"
                        /\ <<last'.request[1], last'.request[2], session'[c].role>>
                               \in ValidLogins
                        /\ session'[c].username = last'.request[1]
       /\ (last'.op = "login" /\ last' # last /\ last'.status # "200")
              => session' = session
       /\ (last'.op = "logout" /\ last' # last)
              => session'[last'.client] = EmptySession
       /\ products' # products
              => /\ last'.op \in ProductOps
                 /\ last'.status = "200"
                 /\ session[last'.client].role \in
                        (IF last'.op = "delete_product" THEN {"owner"}
                         ELSE {"owner", "staff"})
       /\ (last'.op \in ProductOps /\ last' # last
              /\ session[last'.client].role \notin {"owner", "staff"})
              => last'.status = "403" /\ products' = products
       /\ (last'.op = "delete_product" /\ last' # last
              /\ session[last'.client].role # "owner")
              => last'.status = "403" /\ products' = products
      ]_vars

\* C9's case: a delete_product request of a client with no role in its
\* session was answered 403 while the other client is logged in as the owner
\* and the product is still there.
C9_Witness ==
    /\ last.op = "delete_product" /\ last.status = "403"
    /\ session[last.client] = EmptySession
    /\ \E c \in Clients \ {last.client} : session[c].role = "owner"
    /\ last.id \in DOMAIN products

====
